---------------------------- MODULE Spec2Model ----------------------------
(***************************************************************************)
(* A model of tornado_spider (src/base.py): the BQueue admission-capped    *)
(* queue and the BaseWebSpider crawl / parse coroutines driven by run().   *)
(*                                                                         *)
(* Scheduling.  The coroutines are tornado gen.coroutines on one IOLoop    *)
(* thread: a coroutine runs without interruption until it yields a Future  *)
(* that is not done yet.  A yield of a Future that is already done (a      *)
(* Queue.put on an unbounded queue, a Queue.get on a non-empty queue, a    *)
(* nested coroutine that finished without suspending) continues in the     *)
(* same step.  The real suspension points are: Queue.get on an empty       *)
(* queue, client.fetch, the extraction collaborator, gen.sleep and         *)
(* Queue.join.  Every action below is one such uninterrupted run.          *)
(***************************************************************************)
EXTENDS Integers, Sequences, FiniteSets, TLC

(***************************************************************************)
(* Bounds of the model.                                                    *)
(***************************************************************************)
MaxConcurrency == 2    \* concurrency ranges over 1..MaxConcurrency
MaxCrawl == 3          \* max_crawl ranges over 0..MaxCrawl
MaxParse == 2          \* max_parse ranges over 0..MaxParse
MaxPuts == 4           \* puts offered to the stand-alone queue of SpecQ

(***************************************************************************)
(* Strings are sequences of tokens, so that prefix, substring, urldefrag   *)
(* and urljoin are computed and not assumed.                               *)
(***************************************************************************)
startswith(s, p) ==
    /\ Len(p) <= Len(s)
    /\ SubSeq(s, 1, Len(p)) = p

\* Python's  e in href  on strings: e occurs as a contiguous substring.
contains(s, e) ==
    \E i \in 0..(Len(s) - Len(e)) : SubSeq(s, i + 1, i + Len(e)) = e

\* urllib.parse.urldefrag(href)[0]: the href without its fragment.
urldefrag(href) ==
    IF \E i \in 1..Len(href) : href[i] = "#"
    THEN LET k == CHOOSE i \in 1..Len(href) :
                     /\ href[i] = "#"
                     /\ \A j \in 1..(i - 1) : href[j] # "#"
         IN  SubSeq(href, 1, k - 1)
    ELSE href

\* The configuration of the spider (src/example.py).
base == <<"https", ":", "//", "ex", "/">>
capture == <<"/", "wiki", "/">>
exclude == << <<":">> >>
start_url == base
output == "csv"

\* urllib.parse.urljoin(base, ref) for a base that is scheme://host/ .
urljoin(b, ref) ==
    IF ref = <<>> THEN b
    ELSE IF Len(ref) >= 2 /\ ref[2] = ":" THEN ref                 \* absolute
    ELSE IF ref[1] = "//" THEN SubSeq(b, 1, 2) \o ref              \* //host/path
    ELSE IF ref[1] = "/" THEN SubSeq(b, 1, 4) \o ref               \* /path
    ELSE b \o ref                                                  \* path

\* The hrefs of the pages of the site, in document order.
wiki(p) == <<"/", "wiki", "/", p>>
Page(p) == SubSeq(base, 1, 4) \o wiki(p)

HrefsOf(url) ==
    IF url = base THEN
        << wiki("a"),                          \* in-domain, captured
           <<"//", "off", "/", "b">>,          \* off-domain, no colon
           wiki("b"),
           wiki("a") \o <<"#", "x">>,          \* the same page, with a fragment
           wiki("c") \o <<":", "x">>,          \* excluded
           <<"/", "about">> >>                 \* in-domain, not captured
    ELSE IF url = Page("a") THEN
        << wiki("b"),
           <<"#", "top">>,                     \* back to the start page
           <<"https", ":", "//", "ex", "/", "wiki", "/", "c">> >>  \* excluded
    ELSE IF url = Page("b") THEN
        << wiki("a") >>
    ELSE << >>

(***************************************************************************)
(* get_html_from_url: the body on success; on a failed fetch the except    *)
(* clause returns the empty list [] (src/base.py:111), which is not a      *)
(* string.                                                                 *)
(***************************************************************************)
get_html_from_url(url, ok) ==
    IF ok THEN [type |-> "str", hrefs |-> HrefsOf(url)]
    ELSE [type |-> "list", hrefs |-> << >>]

\* Variant: the joined URL is not compared with the base URL.
RECURSIVE scan_hrefs_any_domain(_, _, _)
scan_hrefs_any_domain(hrefs, urls, urls_to_parse) ==
    IF hrefs = << >> THEN [raised |-> FALSE, urls |-> urls,
                           urls_to_parse |-> urls_to_parse]
    ELSE LET href == Head(hrefs)
             url == urljoin(base, urldefrag(href))
         IN  IF \E i \in 1..Len(exclude) : contains(href, exclude[i])
             THEN scan_hrefs_any_domain(Tail(hrefs), urls, urls_to_parse)
             ELSE scan_hrefs_any_domain(Tail(hrefs), Append(urls, url),
                                        IF contains(url, capture)
                                        THEN Append(urls_to_parse, url)
                                        ELSE urls_to_parse)

\* The loop of get_urls over the hrefs of the document.
RECURSIVE scan_hrefs(_, _, _)
scan_hrefs(hrefs, urls, urls_to_parse) ==
    IF hrefs = << >> THEN [raised |-> FALSE, urls |-> urls,
                           urls_to_parse |-> urls_to_parse]
    ELSE LET href == Head(hrefs)
             url == urljoin(base, urldefrag(href))
         IN  IF \E i \in 1..Len(exclude) : contains(href, exclude[i])
             THEN scan_hrefs(Tail(hrefs), urls, urls_to_parse)
             ELSE IF startswith(url, base)
             THEN scan_hrefs(Tail(hrefs), Append(urls, url),
                             IF contains(url, capture)
                             THEN Append(urls_to_parse, url)
                             ELSE urls_to_parse)
             ELSE scan_hrefs(Tail(hrefs), urls, urls_to_parse)

\* get_urls: lxml's html.fromstring accepts a str or bytes document only;
\* given the list [] it raises, and get_urls has no handler.
get_urls(document) ==
    IF document.type # "str"
    THEN [raised |-> TRUE, urls |-> << >>, urls_to_parse |-> << >>]
    ELSE scan_hrefs(document.hrefs, << >>, << >>)


(***************************************************************************)
(* tornado.queues.Queue with maxsize = 0, as BQueue inherits it: the items *)
(* (a FIFO), the consumers blocked in get() (getters), the items already   *)
(* handed to a blocked consumer whose coroutine has not resumed yet        *)
(* (delivered), the count of unfinished tasks and the _finished event.     *)
(* BQueue adds capacity, put_counter and is_reached.                       *)
(***************************************************************************)
BQueue(capacity) ==
    [ items |-> << >>, getters |-> << >>, delivered |-> {},
      unfinished |-> 0, finished |-> TRUE,
      capacity |-> capacity, put_counter |-> 0, is_reached |-> FALSE ]

\* An argument that may be None: None, or Some(n) for the number n.
None == << >>
Some(n) == << n >>

\* Variant: a negative capacity is accepted.
BQueue_init_unchecked(capacity) ==
    IF capacity = None
    THEN [raised |-> "TypeError", q |-> BQueue(0)]
    ELSE [raised |-> "", q |-> BQueue(capacity[1])]

\* BQueue.__init__: the exception it raises ("" if none) and the queue.
BQueue_init(capacity) ==
    IF capacity = None
    THEN [raised |-> "TypeError", q |-> BQueue(0)]
    ELSE IF capacity[1] < 0
    THEN [raised |-> "ValueError", q |-> BQueue(0)]
    ELSE [raised |-> "", q |-> BQueue(capacity[1])]

\* Queue.put_nowait of the base class: count the task, clear the event,
\* store the item, and hand the head of the queue to the first getter.
Queue_put_nowait(q, item) ==
    LET q1 == [q EXCEPT !.unfinished = @ + 1, !.finished = FALSE,
                        !.items = Append(@, item)]
    IN  IF q.getters # << >>
        THEN [q1 EXCEPT !.getters = Tail(@), !.items = Tail(@),
                        !.delivered = @ \cup {<<Head(q.getters), Head(q1.items)>>}]
        ELSE q1

\* Variant: is_reached is not consulted.
put_nowait_unchecked(q, item) ==
    LET q1 == [Queue_put_nowait(q, item) EXCEPT !.put_counter = @ + 1]
    IN  IF 0 < q1.capacity /\ q1.capacity = q1.put_counter
        THEN [q1 EXCEPT !.is_reached = TRUE]
        ELSE q1

\* Variant: the cap is taken as reached one put late.
put_nowait_off_by_one(q, item) ==
    IF ~q.is_reached
    THEN LET q1 == [Queue_put_nowait(q, item) EXCEPT !.put_counter = @ + 1]
         IN  IF 0 < q1.capacity /\ q1.capacity < q1.put_counter
             THEN [q1 EXCEPT !.is_reached = TRUE]
             ELSE q1
    ELSE q

\* Variant: the cap counts as reached once the counter is at least the
\* capacity, a capacity of 0 included.
put_nowait_at_least(q, item) ==
    IF ~q.is_reached
    THEN LET q1 == [Queue_put_nowait(q, item) EXCEPT !.put_counter = @ + 1]
         IN  IF q1.capacity <= q1.put_counter
             THEN [q1 EXCEPT !.is_reached = TRUE]
             ELSE q1
    ELSE q

\* BQueue.put_nowait; Queue.put calls it and, the queue being unbounded,
\* returns a Future that is already done.
put_nowait(q, item) ==
    IF ~q.is_reached
    THEN LET q1 == [Queue_put_nowait(q, item) EXCEPT !.put_counter = @ + 1]
         IN  IF 0 < q1.capacity /\ q1.capacity = q1.put_counter
             THEN [q1 EXCEPT !.is_reached = TRUE]
             ELSE q1
    ELSE q

\* Queue.get_nowait on a non-empty queue.
get_nowait(q) == [q EXCEPT !.items = Tail(@)]

\* Queue.get on an empty queue: the caller g waits for a put.
get_wait(q, g) == [q EXCEPT !.getters = Append(@, g)]

\* Queue.task_done: raises ValueError (the queue is unchanged) when no task
\* is unfinished; sets the event when the last one finishes.
task_done(q) ==
    IF q.unfinished <= 0 THEN q
    ELSE [q EXCEPT !.unfinished = @ - 1, !.finished = (q.unfinished = 1)]

(***************************************************************************)
(* The state.                                                              *)
(***************************************************************************)
VARIABLES
    config,          \* the arguments output, max_crawl, max_parse of __init__
    concurrency,     \* self.concurrency
    delay,           \* self.delay
    q_crawl,         \* self.q_crawl
    q_parse,         \* self.q_parse
    brief,           \* self.brief: the sets crawling, crawled, parsing
    data,            \* self.data, each record named by the URL it came from
    crawlers,        \* the crawler() coroutines: where each one is suspended
    parsers,         \* the parser() coroutines
    run_pc,          \* where run() is
    spawned,         \* the coroutines run() has started so far
    error,           \* the exception run() ended with, "" if none
    admitted,        \* history: the items each queue ever stored, in order
    history,         \* history: fetches started, duplicates skipped, failures
    puts             \* SpecQ only: the puts offered so far

vars == << config, concurrency, delay, q_crawl, q_parse, brief, data, crawlers,
           parsers, run_pc, spawned, error, admitted, history, puts >>

NoUrl == << >>
NoHistory ==
    [ fetched |-> << >>,      \* the URL of each fetch crawl_url began, in order
      skipped |-> {},         \* the URLs dequeued and skipped as duplicates
      fetch_failed |-> 0,     \* fetches that ended with an error
      extract_failed |-> 0,   \* extractions that ended with an exception
      timed_out |-> FALSE ]   \* the crawl join timed out
Delays == {0, 1}
Workers == 1..MaxConcurrency

\* The whole state as one record, threaded through the coroutine bodies.
St ==
    [ config |-> config, concurrency |-> concurrency, delay |-> delay,
      q_crawl |-> q_crawl, q_parse |-> q_parse, brief |-> brief,
      data |-> data, crawlers |-> crawlers, parsers |-> parsers,
      run_pc |-> run_pc, spawned |-> spawned, error |-> error,
      admitted |-> admitted, history |-> history ]

Becomes(s) ==
    /\ config' = s.config
    /\ concurrency' = s.concurrency
    /\ delay' = s.delay
    /\ q_crawl' = s.q_crawl
    /\ q_parse' = s.q_parse
    /\ brief' = s.brief
    /\ data' = s.data
    /\ crawlers' = s.crawlers
    /\ parsers' = s.parsers
    /\ run_pc' = s.run_pc
    /\ spawned' = s.spawned
    /\ error' = s.error
    /\ admitted' = s.admitted
    /\ history' = s.history
    /\ puts' = puts

(***************************************************************************)
(* Queue operations as the coroutines use them.                            *)
(***************************************************************************)
\* yield self.<w>.put(item), with the history of what the queue stored.
put(s, w, item) ==
    LET q2 == put_nowait(s[w], item)
    IN  [s EXCEPT ![w] = q2,
                  !.admitted[w] = IF q2.unfinished > s[w].unfinished
                                  THEN Append(@, item) ELSE @]

\* self.<w>.task_done(); the event it sets resolves the Future run() is
\* waiting on in <w>.join(), if any.
done(s, w) ==
    LET q2 == task_done(s[w])
        set == q2.finished /\ ~s[w].finished
    IN  [s EXCEPT ![w] = q2,
                  !.run_pc = IF set /\ w = "q_crawl" /\ @ = "join_crawl"
                             THEN "crawl_joined"
                             ELSE IF set /\ w = "q_parse" /\ @ = "join_parse"
                             THEN "parse_joined"
                             ELSE @]

Suspended(pc, url) == [pc |-> pc, url |-> url]

(***************************************************************************)
(* crawl_url and crawler.                                                  *)
(***************************************************************************)
\* for url in urls: stop at the cap, else put.
RECURSIVE put_crawl_links(_, _)
put_crawl_links(s, urls) ==
    IF urls = << >> \/ s.q_crawl.is_reached THEN s
    ELSE put_crawl_links(put(s, "q_crawl", Head(urls)), Tail(urls))

\* Variant: the candidate is put without looking it up in 'parsing'.
put_parse_link_nocheck(s, url) ==
    [put(s, "q_parse", url) EXCEPT !.brief.parsing = @ \cup {url}]

\* One candidate of urls_to_parse that passed the cap check.
put_parse_link(s, url) ==
    IF url \notin s.brief.parsing
    THEN [put(s, "q_parse", url) EXCEPT !.brief.parsing = @ \cup {url}]
    ELSE s

\* Variant: the extract loop also stops when the crawl queue is reached.
RECURSIVE put_parse_links_crawl_cap(_, _)
put_parse_links_crawl_cap(s, urls) ==
    IF urls = << >> \/ s.q_parse.is_reached \/ s.q_crawl.is_reached THEN s
    ELSE put_parse_links_crawl_cap(put_parse_link(s, Head(urls)), Tail(urls))

\* for url in urls_to_parse: stop at the cap, else put what is new.
RECURSIVE put_parse_links(_, _)
put_parse_links(s, urls) ==
    IF urls = << >> \/ s.q_parse.is_reached THEN s
    ELSE put_parse_links(put_parse_link(s, Head(urls)), Tail(urls))

RECURSIVE crawler(_, _)

\* crawler's  yield self.__wait('Crawler')  and the next turn of its loop.
crawler_next(s, c) ==
    IF s.delay > 0
    THEN [s EXCEPT !.crawlers[c] = Suspended("sleep", NoUrl)]
    ELSE crawler(s, c)

\* Variant: no duplicate check.
is_duplicate_never(s, url) == FALSE

\* Variant: the check looks in 'crawled', which a URL enters only after
\* its fetch.
is_duplicate_crawled(s, url) == url \in s.brief.crawled

\* The duplicate check of crawl_url.

is_duplicate(s, url) == url \in s.brief.crawling

\* Variant: the duplicate is skipped without task_done.
crawl_url_got_leak(s, c, current_url) ==
    IF is_duplicate(s, current_url)
    THEN crawler_next(
             [s EXCEPT !.history.skipped = @ \cup {current_url}], c)
    ELSE [s EXCEPT !.brief.crawling = @ \cup {current_url},
                   !.crawlers[c] = Suspended("fetch", current_url),
                   !.history.fetched = Append(@, current_url)]

\* crawl_url once  yield self.q_crawl.get()  has produced current_url, up
\* to the fetch.
crawl_url_got(s, c, current_url) ==
    IF is_duplicate(s, current_url)
    THEN crawler_next(
             done([s EXCEPT !.history.skipped = @ \cup {current_url}],
                  "q_crawl"), c)
    ELSE [s EXCEPT !.brief.crawling = @ \cup {current_url},
                   !.crawlers[c] = Suspended("fetch", current_url),
                   !.history.fetched = Append(@, current_url)]

\* while True: yield self.crawl_url(), from the top of crawl_url.
crawler(s, c) ==
    IF s.q_crawl.items # << >>
    THEN crawl_url_got([s EXCEPT !.q_crawl = get_nowait(@)], c,
                       Head(s.q_crawl.items))
    ELSE [s EXCEPT !.q_crawl = get_wait(@, c),
                   !.crawlers[c] = Suspended("get", NoUrl)]

\* Variant: the task is marked done before the links are put.
crawl_url_fetched_early_done(s, c, ok) ==
    LET current_url == s.crawlers[c].url
        r == get_urls(get_html_from_url(current_url, ok))
    IN  IF r.raised
        THEN [done(s, "q_crawl") EXCEPT !.crawlers[c] = Suspended("dead", NoUrl)]
        ELSE crawler_next(
                 put_parse_links(
                     put_crawl_links(
                         done([s EXCEPT !.brief.crawled = @ \cup {current_url}],
                              "q_crawl"),
                         r.urls),
                     r.urls_to_parse),
                 c)

\* crawl_url once the fetch has ended (ok or not): get_urls, the two loops,
\* the finally clause.  An exception leaves crawl_url through the finally
\* clause and ends crawler's loop.
crawl_url_fetched(s, c, ok) ==
    LET current_url == s.crawlers[c].url
        r == get_urls(get_html_from_url(current_url, ok))
    IN  IF r.raised
        THEN [done(s, "q_crawl") EXCEPT !.crawlers[c] = Suspended("dead", NoUrl)]
        ELSE crawler_next(
                 done(put_parse_links(
                          put_crawl_links(
                              [s EXCEPT !.brief.crawled = @ \cup {current_url}],
                              r.urls),
                          r.urls_to_parse),
                      "q_crawl"),
                 c)

(***************************************************************************)
(* parse_url and parser.                                                   *)
(***************************************************************************)
\* parse_url up to its first suspension:  yield self.q_parse.get()  goes on
\* at once with the head of the queue, or waits among the getters when the
\* queue is empty; then the extraction starts.
parse_url(s, p) ==
    IF s.q_parse.items # << >>
    THEN [s EXCEPT !.q_parse = get_nowait(@),
                   !.parsers[p] = Suspended("extract", Head(s.q_parse.items))]
    ELSE [s EXCEPT !.q_parse = get_wait(@, p),
                   !.parsers[p] = Suspended("get", NoUrl)]

\* Variant: parse_url is called without looking at qsize().
parser_no_qsize(s, p) == parse_url(s, p)

\* while True: parse_url if the queue holds something, else sleep(0.5).
parser(s, p) ==
    IF Len(s.q_parse.items) > 0
    THEN parse_url(s, p)
    ELSE [s EXCEPT !.parsers[p] = Suspended("sleep", NoUrl)]

parser_next(s, p) ==
    IF s.delay > 0
    THEN [s EXCEPT !.parsers[p] = Suspended("sleep", NoUrl)]
    ELSE parser(s, p)

\* parse_url once get_parsed_content has ended: the record is appended on
\* success; the finally clause marks the task done either way; an exception
\* ends parser's loop.
parse_url_extracted(s, p, ok) ==
    IF ok
    THEN parser_next(done([s EXCEPT !.data = Append(@, s.parsers[p].url)],
                          "q_parse"), p)
    ELSE [done(s, "q_parse") EXCEPT !.parsers[p] = Suspended("dead", NoUrl)]

(***************************************************************************)
(* run.                                                                    *)
(***************************************************************************)
abort(s, e) == [s EXCEPT !.run_pc = "aborted", !.error = e]

\* Variant: no assertion.
validate_unchecked(s) == [s EXCEPT !.run_pc = "writing"]

\* The two assertions, then the write.

validate(s) ==
    IF s.brief.crawling # s.brief.crawled
    THEN abort(s, "Crawling and crawled urls do not match")
    ELSE IF Cardinality(s.brief.parsing) # Len(s.data)
    THEN abort(s, "PARSING != PARSED")
    ELSE [s EXCEPT !.run_pc = "writing"]

\* yield self.q_parse.join()
join_parse(s) ==
    IF s.q_parse.finished THEN validate(s)
    ELSE [s EXCEPT !.run_pc = "join_parse"]

\* yield self.q_crawl.join(timeout=...)
join_crawl(s) ==
    IF s.q_crawl.finished THEN join_parse(s)
    ELSE [s EXCEPT !.run_pc = "join_crawl"]

(***************************************************************************)
(* The spider: Init is the state after __init__.                           *)
(***************************************************************************)
Init ==
    /\ concurrency \in 1..MaxConcurrency
    /\ delay \in Delays
    /\ \E max_crawl \in 0..MaxCrawl, max_parse \in 0..MaxParse :
          /\ config = [output |-> output, max_crawl |-> Some(max_crawl),
                       max_parse |-> Some(max_parse)]
          /\ q_crawl = BQueue(max_crawl)
          /\ q_parse = BQueue(max_parse)
    /\ brief = [crawling |-> {}, crawled |-> {}, parsing |-> {}]
    /\ data = << >>
    /\ crawlers = [c \in Workers |-> Suspended("idle", NoUrl)]
    /\ parsers = [p \in Workers |-> Suspended("idle", NoUrl)]
    /\ run_pc = "start"
    /\ spawned = 0
    /\ error = ""
    /\ admitted = [q_crawl |-> << >>, q_parse |-> << >>]
    /\ history = NoHistory
    /\ puts = 0

\* run: self.q_crawl.put(self.start_url)
Seed ==
    /\ run_pc = "start"
    /\ Becomes([put(St, "q_crawl", start_url) EXCEPT !.run_pc = "spawn"])

\* run: self.crawler() of one turn of the for loop; the coroutine runs up
\* to its first suspension.
SpawnCrawler ==
    /\ run_pc = "spawn"
    /\ spawned < 2 * concurrency
    /\ spawned % 2 = 0
    /\ Becomes(crawler([St EXCEPT !.spawned = @ + 1], (spawned \div 2) + 1))

\* run: self.parser() of one turn of the for loop.
SpawnParser ==
    /\ run_pc = "spawn"
    /\ spawned < 2 * concurrency
    /\ spawned % 2 = 1
    /\ Becomes(parser([St EXCEPT !.spawned = @ + 1], (spawned \div 2) + 1))

\* run: the first join, once the loop is over.
Join ==
    /\ run_pc = "spawn"
    /\ spawned = 2 * concurrency
    /\ Becomes(join_crawl(St))

\* Queue.join(timeout): its Future raises tornado.util.TimeoutError once the
\* timeout has passed; run() has no handler and ends with it.
JoinTimeout ==
    /\ run_pc = "join_crawl"
    /\ Becomes(abort([St EXCEPT !.history.timed_out = TRUE], "TimeoutError"))

\* run resumes after q_crawl.join().
CrawlJoined ==
    /\ run_pc = "crawl_joined"
    /\ Becomes(join_parse(St))

\* run resumes after q_parse.join().
ParseJoined ==
    /\ run_pc = "parse_joined"
    /\ Becomes(validate(St))

\* run: the output is written and run returns.  _write_csv takes its
\* header from self.data[0], an IndexError when there is no record.
Write ==
    /\ run_pc = "writing"
    /\ Becomes(IF config.output = "csv" /\ data = << >>
               THEN abort(St, "IndexError")
               ELSE [St EXCEPT !.run_pc = "done"])

\* The IOLoop serves the coroutines while run() is suspended in a join
\* (io_loop.run_sync(web_crawler.run) stops the loop when run ends).
Serving == run_pc \in {"join_crawl", "crawl_joined", "join_parse", "parse_joined"}

\* A crawler blocked in q_crawl.get() resumes with the item a put handed it.
CrawlerGot(c) ==
    /\ Serving
    /\ \E d \in q_crawl.delivered :
          /\ d[1] = c
          /\ Becomes(crawl_url_got([St EXCEPT !.q_crawl.delivered = @ \ {d}],
                                   c, d[2]))

\* The fetch of a crawler ends, with a response or with an error.
Fetched(c) ==
    /\ Serving
    /\ crawlers[c].pc = "fetch"
    /\ \E ok \in BOOLEAN :
          Becomes(crawl_url_fetched(
              [St EXCEPT !.history.fetch_failed = IF ok THEN @ ELSE @ + 1], c, ok))

\* The politeness delay of a crawler is over.
CrawlerWake(c) ==
    /\ Serving
    /\ crawlers[c].pc = "sleep"
    /\ Becomes(crawler(St, c))

\* The extraction of a parser ends, with a record or with an exception.
Extracted(p) ==
    /\ Serving
    /\ parsers[p].pc = "extract"
    /\ \E ok \in BOOLEAN :
          Becomes(parse_url_extracted(
              [St EXCEPT !.history.extract_failed = IF ok THEN @ ELSE @ + 1], p, ok))

\* The poll sleep (and the politeness delay) of a parser is over.
ParserWake(p) ==
    /\ Serving
    /\ parsers[p].pc = "sleep"
    /\ Becomes(parser(St, p))

Next ==
    \/ Seed
    \/ SpawnCrawler
    \/ SpawnParser
    \/ Join
    \/ JoinTimeout
    \/ CrawlJoined
    \/ ParseJoined
    \/ Write
    \/ \E c \in Workers : CrawlerGot(c)
    \/ \E c \in Workers : Fetched(c)
    \/ \E c \in Workers : CrawlerWake(c)
    \/ \E p \in Workers : Extracted(p)
    \/ \E p \in Workers : ParserWake(p)

Spec == Init /\ [][Next]_vars

(***************************************************************************)
(* SpecC: the spider from the call of its constructor, with arguments that *)
(* may be invalid.                                                         *)
(***************************************************************************)
OUTPUT_FORMATS == {"json", "csv"}

Caps(n) == {None, Some(-1)} \cup {Some(k) : k \in 0..n}
Configs ==
    [ output : {"json", "csv", "xml"},
      max_crawl : Caps(MaxCrawl), max_parse : Caps(MaxParse) ]

\* An exception leaves __init__: there is no spider to call run() on.
reject(s, e) == [s EXCEPT !.run_pc = "rejected", !.error = e]

\* BaseWebSpider.__init__: the assertion on output, then the two queues.
BaseWebSpider_init(s) ==
    LET crawl == BQueue_init(s.config.max_crawl)
        parse == BQueue_init(s.config.max_parse)
    IN  IF s.config.output \notin OUTPUT_FORMATS
        THEN reject(s, "AssertionError")
        ELSE IF crawl.raised # "" THEN reject(s, crawl.raised)
        ELSE IF parse.raised # "" THEN reject(s, parse.raised)
        ELSE [s EXCEPT !.q_crawl = crawl.q, !.q_parse = parse.q,
                       !.run_pc = "start"]

\* Before the constructor is called nothing exists but its arguments.
InitC ==
    /\ config \in Configs
    /\ concurrency \in 1..MaxConcurrency
    /\ delay \in Delays
    /\ q_crawl = BQueue(0)
    /\ q_parse = BQueue(0)
    /\ brief = [crawling |-> {}, crawled |-> {}, parsing |-> {}]
    /\ data = << >>
    /\ crawlers = [c \in Workers |-> Suspended("idle", NoUrl)]
    /\ parsers = [p \in Workers |-> Suspended("idle", NoUrl)]
    /\ run_pc = "new"
    /\ spawned = 0
    /\ error = ""
    /\ admitted = [q_crawl |-> << >>, q_parse |-> << >>]
    /\ history = NoHistory
    /\ puts = 0

\* web_crawler = MyWebSpider(...)
Construct ==
    /\ run_pc = "new"
    /\ Becomes(BaseWebSpider_init(St))

NextC == Construct \/ Next

SpecC == InitC /\ [][NextC]_vars

(***************************************************************************)
(* SpecQ: one BQueue on its own (q_crawl), driven by any sequence of puts, *)
(* gets and task_dones of up to MaxConcurrency consumers.                  *)
(***************************************************************************)
QItems == {base, Page("a")}

InitQ ==
    /\ concurrency = MaxConcurrency
    /\ delay = 0
    /\ \E capacity \in 0..MaxCrawl :
          /\ config = [output |-> output, max_crawl |-> Some(capacity),
                       max_parse |-> Some(0)]
          /\ q_crawl = BQueue(capacity)
    /\ q_parse = BQueue(0)
    /\ brief = [crawling |-> {}, crawled |-> {}, parsing |-> {}]
    /\ data = << >>
    /\ crawlers = [c \in Workers |-> Suspended("idle", NoUrl)]
    /\ parsers = [p \in Workers |-> Suspended("idle", NoUrl)]
    /\ run_pc = "start"
    /\ spawned = 0
    /\ error = ""
    /\ admitted = [q_crawl |-> << >>, q_parse |-> << >>]
    /\ history = NoHistory
    /\ puts = 0

\* q.put(item) / q.put_nowait(item)
QPut(item) ==
    /\ puts < MaxPuts
    /\ puts' = puts + 1
    /\ LET s == put(St, "q_crawl", item)
       IN  /\ q_crawl' = s.q_crawl
           /\ admitted' = s.admitted
    /\ UNCHANGED << config, concurrency, delay, q_parse, brief, data, crawlers,
                    parsers, run_pc, spawned, error, history >>

\* q.get() by a consumer that is not waiting already: the head of the
\* queue, or a place among the getters.
QGet(g) ==
    /\ \A i \in 1..Len(q_crawl.getters) : q_crawl.getters[i] # g
    /\ \A d \in q_crawl.delivered : d[1] # g
    /\ q_crawl' = IF q_crawl.items # << >> THEN get_nowait(q_crawl)
                  ELSE get_wait(q_crawl, g)
    /\ UNCHANGED << config, concurrency, delay, q_parse, brief, data, crawlers,
                    parsers, run_pc, spawned, error, admitted, history, puts >>

\* A consumer that waited resumes with the item handed to it.
QGot(g) ==
    /\ \E d \in q_crawl.delivered :
          /\ d[1] = g
          /\ q_crawl' = [q_crawl EXCEPT !.delivered = @ \ {d}]
    /\ UNCHANGED << config, concurrency, delay, q_parse, brief, data, crawlers,
                    parsers, run_pc, spawned, error, admitted, history, puts >>

\* q.task_done() for an item taken before.
QTaskDone ==
    /\ q_crawl.unfinished >
          Len(q_crawl.items) + Cardinality(q_crawl.delivered)
    /\ q_crawl' = task_done(q_crawl)
    /\ UNCHANGED << config, concurrency, delay, q_parse, brief, data, crawlers,
                    parsers, run_pc, spawned, error, admitted, history, puts >>

NextQ ==
    \/ \E item \in QItems : QPut(item)
    \/ \E g \in Workers : QGet(g)
    \/ \E g \in Workers : QGot(g)
    \/ QTaskDone

SpecQ == InitQ /\ [][NextQ]_vars

(***************************************************************************)
(* Properties.                                                             *)
(***************************************************************************)
Count(seq, x) == Cardinality({i \in 1..Len(seq) : seq[i] = x})
NoDup(seq) == \A i, j \in 1..Len(seq) : seq[i] = seq[j] => i = j
Range(seq) == {seq[i] : i \in 1..Len(seq)}

\* Both queues are empty with nothing in flight.
Drained == q_crawl.unfinished = 0 /\ q_parse.unfinished = 0

\* No fetch and no extraction has failed and the crawl join has not timed out.
NoFailure ==
    /\ history.fetch_failed = 0
    /\ history.extract_failed = 0
    /\ ~history.timed_out

AssertionErrors ==
    {"Crawling and crawled urls do not match", "PARSING != PARSED"}

\* C1: once a BQueue with capacity > 0 is reached, a put (after any
\* sequence of puts, gets and task_dones) changes neither put_counter, nor
\* the queued or handed-over items, nor the unfinished count, nor what the
\* queue ever stored.
C1_PutAfterCapIsDropped ==
    [][\A item \in QItems :
          (q_crawl.capacity > 0 /\ q_crawl.is_reached /\ QPut(item))
          => /\ q_crawl'.put_counter = q_crawl.put_counter
             /\ q_crawl'.items = q_crawl.items
             /\ q_crawl'.delivered = q_crawl.delivered
             /\ q_crawl'.unfinished = q_crawl.unfinished
             /\ admitted' = admitted]_vars

\* A put was offered after the cap was reached, with gets and task_dones
\* before it.
C1_Witness ==
    /\ q_crawl.capacity > 0
    /\ q_crawl.is_reached
    /\ puts > q_crawl.put_counter
    /\ q_crawl.unfinished < q_crawl.put_counter

\* The links get_urls finds on the start page.
StartLinks == get_urls(get_html_from_url(start_url, TRUE)).urls

\* C2: with max_crawl = K > 0 the crawl queue never stores more than K URLs
\* (the seed included) and at most K fetches for links begin; with
\* max_parse = M > 0 the extract queue never stores more than M URLs and at
\* most M records are collected; once the start page, offering at least
\* K-1 links, has been crawled, the crawl queue has stored exactly K.
C2_AdmissionsWithinCaps ==
    /\ q_crawl.capacity > 0 =>
          /\ Len(admitted.q_crawl) <= q_crawl.capacity
          /\ Len(history.fetched) <= q_crawl.capacity
    /\ q_parse.capacity > 0 =>
          /\ Len(admitted.q_parse) <= q_parse.capacity
          /\ Len(data) <= q_parse.capacity
    /\ ( /\ q_crawl.capacity > 0
         /\ start_url \in brief.crawled
         /\ Len(StartLinks) >= q_crawl.capacity - 1 )
       => Len(admitted.q_crawl) = q_crawl.capacity

C2_Witness ==
    /\ concurrency = 2
    /\ q_crawl.capacity = 3
    /\ q_parse.capacity = 2
    /\ Len(admitted.q_crawl) = 3
    /\ Len(history.fetched) = 3
    /\ Len(data) = 2
    /\ run_pc = "done"

\* C3: while nothing has failed or timed out, whenever both queues are
\* drained 'crawling' equals 'crawled' and 'parsing' has as many URLs as
\* there are records, and run() does not end with an assertion error.
C3_DrainedRegistriesAgree ==
    NoFailure =>
        /\ Drained => /\ brief.crawling = brief.crawled
                      /\ Cardinality(brief.parsing) = Len(data)
        /\ error \notin AssertionErrors

C3_Witness ==
    /\ NoFailure
    /\ concurrency = 2
    /\ run_pc = "done"
    /\ Cardinality(brief.crawled) >= 3
    /\ Len(data) >= 2

\* C4 as stated: no step stores in the crawl queue a URL that is in
\* 'crawled'.
C4_CrawledNeverEnqueuedAgain ==
    [][\A u \in brief.crawled :
          Count(admitted'.q_crawl, u) = Count(admitted.q_crawl, u)]_vars

\* C4 amended: a URL in 'crawled' stays there and is never fetched again
\* (a link to it may be stored in the crawl queue again; the crawler that
\* dequeues it skips it).
C4_CrawledNeverFetchedAgain ==
    [][\A u \in brief.crawled :
          /\ Count(history'.fetched, u) = Count(history.fetched, u)
          /\ u \in brief'.crawled]_vars

\* The start page was stored again after it was crawled, dequeued and
\* skipped.
C4_Witness ==
    /\ start_url \in brief.crawled
    /\ Count(admitted.q_crawl, start_url) >= 2
    /\ start_url \in history.skipped
    /\ Count(history.fetched, start_url) = 1
    /\ q_crawl.unfinished = 0

\* C5 as stated: after a failed fetch the URL is in 'crawled', no crawler
\* has stopped, and run() does not end with an error.
C5_FetchFailureIsZeroLinks ==
    (history.extract_failed = 0 /\ ~history.timed_out) =>
        /\ \A c \in Workers : crawlers[c].pc # "dead"
        /\ \A u \in Range(history.fetched) :
              \/ u \in brief.crawled
              \/ \E c \in Workers : crawlers[c] = Suspended("fetch", u)
        /\ error = ""

\* C6 as stated: with f failed extractions the run does not abort and, when
\* it writes, holds (admitted extract tasks - f) records.
C6_ExtractionFailureNonFatal ==
    (history.fetch_failed = 0 /\ ~history.timed_out) =>
        /\ error = ""
        /\ run_pc \in {"writing", "done"} =>
              Len(data) = Len(admitted.q_parse) - history.extract_failed

\* C7 as stated: after a timeout of the crawl join, run() goes on to the
\* extract join and the validation; the timeout is no error.
C7_TimeoutIsNotAnError ==
    history.timed_out =>
        /\ error # "TimeoutError"
        /\ run_pc \in {"join_parse", "parse_joined", "writing", "done", "aborted"}

\* C8: run() writes only with both queues drained, no timeout, and both
\* assertions true; a run that ended with an assertion error found that
\* assertion false, and an aborted run stays aborted (it never writes).
C8_WriteOnlyAfterValidation ==
    /\ [](run_pc \in {"writing", "done"} =>
             /\ Drained
             /\ ~history.timed_out
             /\ brief.crawling = brief.crawled
             /\ Cardinality(brief.parsing) = Len(data))
    /\ [](error = "Crawling and crawled urls do not match" =>
             /\ run_pc = "aborted"
             /\ brief.crawling # brief.crawled)
    /\ [](error = "PARSING != PARSED" =>
             /\ run_pc = "aborted"
             /\ Cardinality(brief.parsing) # Len(data))
    /\ [][run_pc = "aborted" => run_pc' = "aborted"]_vars

\* Both joins returned and the validation found fewer records than URLs in
\* 'parsing'.
C8_Witness ==
    /\ run_pc = "aborted"
    /\ error = "PARSING != PARSED"
    /\ Drained
    /\ brief.crawling = brief.crawled

\* C9: no URL is fetched for links twice, no two crawlers fetch the same
\* URL at once, and a URL is skipped only when its crawl has begun.
C9_NoUrlFetchedTwice ==
    /\ NoDup(history.fetched)
    /\ \A c1, c2 \in Workers :
          (/\ crawlers[c1].pc = "fetch"
           /\ crawlers[c2].pc = "fetch"
           /\ crawlers[c1].url = crawlers[c2].url) => c1 = c2
    /\ history.skipped \subseteq brief.crawling

\* While one crawler is fetching a URL, another one has dequeued the same
\* URL and skipped it.
C9_Witness ==
    \E c \in Workers :
        /\ crawlers[c].pc = "fetch"
        /\ crawlers[c].url \in history.skipped
        /\ crawlers[c].url \notin brief.crawled

\* C10: the extract queue stores each URL at most once, 'parsing' is the
\* set of the URLs it stored, and its size is the queue's put_counter (a
\* put and its insertion into 'parsing' are one step: none is in progress
\* in any state).
C10_ParsingIsWhatWasAdmitted ==
    /\ NoDup(admitted.q_parse)
    /\ Range(admitted.q_parse) = brief.parsing
    /\ Cardinality(brief.parsing) = q_parse.put_counter
    /\ Len(admitted.q_parse) = q_parse.put_counter

\* Two crawlers at work; page b, crawled after the start page, offered
\* candidate a again below the cap.
C10_Witness ==
    /\ concurrency = 2
    /\ \A c \in 1..2 : crawlers[c].pc = "fetch"
    /\ Page("b") \in brief.crawled
    /\ ~q_parse.is_reached
    /\ brief.parsing = {Page("a"), Page("b")}


\* The items of each queue that a coroutine has been given and has not
\* marked done yet.
CrawlInFlight ==
    Cardinality(q_crawl.delivered)
      + Cardinality({c \in Workers : crawlers[c].pc = "fetch"})

ParseInFlight ==
    Cardinality(q_parse.delivered)
      + Cardinality({p \in Workers : parsers[p].pc = "extract"})

\* C11: every dequeued item is marked done exactly once, whether it is
\* processed, skipped as a duplicate or its processing fails: in every
\* state the unfinished count of each queue is its queued items plus the
\* items dequeued and not yet marked done, and it is never negative.
C11_UnfinishedIsPendingPlusInFlight ==
    /\ q_crawl.unfinished = Len(q_crawl.items) + CrawlInFlight
    /\ q_parse.unfinished = Len(q_parse.items) + ParseInFlight
    /\ q_crawl.unfinished >= 0
    /\ q_parse.unfinished >= 0

\* A duplicate was skipped, a fetch failed and an extraction failed, with
\* crawl work still queued and in flight and an extraction in flight.
C11_Witness ==
    /\ history.skipped # {}
    /\ history.fetch_failed > 0
    /\ history.extract_failed > 0
    /\ Len(q_crawl.items) > 0 /\ CrawlInFlight > 0
    /\ ParseInFlight > 0


(***************************************************************************)
(* SpecLive: the spider on a site whose fetches and extractions all        *)
(* succeed and whose crawl join does not time out.  Fairness: the IOLoop   *)
(* keeps running, so run() goes on whenever it can, and while a worker can *)
(* continue (a fetch, an extraction or a sleep ends, an item was handed to *)
(* a crawler) one of the workers does.  The second part is weak fairness   *)
(* of WorkerNext, with ENABLED <<WorkerNext>>_vars written out as the      *)
(* state predicate WorkersRunnable.                                        *)
(***************************************************************************)
FetchedOk(c) ==
    /\ Serving
    /\ crawlers[c].pc = "fetch"
    /\ Becomes(crawl_url_fetched(St, c, TRUE))

ExtractedOk(p) ==
    /\ Serving
    /\ parsers[p].pc = "extract"
    /\ Becomes(parse_url_extracted(St, p, TRUE))

\* The steps of run() itself.
RunNext ==
    \/ Seed
    \/ SpawnCrawler
    \/ SpawnParser
    \/ Join
    \/ CrawlJoined
    \/ ParseJoined
    \/ Write

\* The steps of the crawlers and parsers.
WorkerNext ==
    \/ \E c \in Workers : CrawlerGot(c)
    \/ \E c \in Workers : FetchedOk(c)
    \/ \E c \in Workers : CrawlerWake(c)
    \/ \E p \in Workers : ExtractedOk(p)
    \/ \E p \in Workers : ParserWake(p)

NextLive == RunNext \/ WorkerNext

\* Something is pending on the IOLoop for a worker: a fetch, an extraction
\* or a sleep is under way, or a crawler has been handed an item.  (A
\* parser asleep on an empty queue wakes and sleeps again, which changes
\* nothing.)
WorkersRunnable ==
    /\ Serving
    /\ \/ \E c \in Workers : crawlers[c].pc \in {"fetch", "sleep"}
       \/ q_crawl.delivered # {}
       \/ \E p \in Workers : parsers[p].pc = "extract"
       \/ \E p \in Workers : parsers[p].pc = "sleep" /\ q_parse.items # << >>

IOLoopRuns ==
    /\ WF_vars(RunNext)
    /\ []<>(~WorkersRunnable) \/ []<><<WorkerNext>>_vars

SpecLive == Init /\ [][NextLive]_vars /\ IOLoopRuns

C13_IsReachedIffCounterAtCap ==
    /\ [](/\ q_crawl.is_reached
             <=> (q_crawl.capacity > 0 /\ q_crawl.put_counter = q_crawl.capacity)
          /\ q_crawl.capacity > 0 => q_crawl.put_counter <= q_crawl.capacity)
    /\ [][/\ q_crawl'.put_counter >= q_crawl.put_counter
          /\ q_crawl.is_reached => q_crawl'.is_reached]_vars

\* The cap was reached, more puts were offered, and every admitted item
\* has been taken and marked done since.
C13_Witness ==
    /\ q_crawl.is_reached
    /\ q_crawl.put_counter = q_crawl.capacity
    /\ puts = MaxPuts
    /\ q_crawl.unfinished = 0

\* C14: a BQueue with capacity 0 is never reached, and every put to it is
\* stored, counted as an unfinished task and adds one to put_counter.
C14_ZeroCapacityIsUnlimited ==
    /\ [](q_crawl.capacity = 0 => ~q_crawl.is_reached)
    /\ [][\A item \in QItems :
             (q_crawl.capacity = 0 /\ QPut(item))
             => /\ q_crawl'.put_counter = q_crawl.put_counter + 1
                /\ q_crawl'.unfinished = q_crawl.unfinished + 1
                /\ admitted'.q_crawl = Append(admitted.q_crawl, item)]_vars

\* MaxPuts puts went into a queue of capacity 0, with a get in between.
C14_Witness ==
    /\ q_crawl.capacity = 0
    /\ q_crawl.put_counter = MaxPuts
    /\ Len(q_crawl.items) < MaxPuts


\* The arguments of the constructor are a configuration error.
ConfigError ==
    \/ config.output \notin {"json", "csv"}
    \/ config.max_crawl = None
    \/ config.max_crawl[1] < 0
    \/ config.max_parse = None
    \/ config.max_parse[1] < 0

\* C15: with a negative or missing capacity or an unsupported output format
\* the constructor raises: the start URL is never enqueued, no worker is
\* started and no fetch begins.
C15_ConfigErrorIsRejectedAtConstruction ==
    ConfigError
    => /\ run_pc \in {"new", "rejected"}
       /\ run_pc = "rejected"
          => error \in {"AssertionError", "TypeError", "ValueError"}
       /\ admitted = [q_crawl |-> << >>, q_parse |-> << >>]
       /\ q_crawl.put_counter = 0
       /\ spawned = 0
       /\ \A w \in Workers : crawlers[w].pc = "idle" /\ parsers[w].pc = "idle"
       /\ history.fetched = << >>

\* The constructor has raised for a negative max_parse, the output format
\* and max_crawl being valid.
C15_Witness ==
    /\ run_pc = "rejected"
    /\ error = "ValueError"
    /\ config.output = "json"
    /\ config.max_crawl = Some(0)


\* url is the target of an href of page p that contains no excluded
\* substring.
LinkedFrom(url, p) ==
    \E i \in 1..Len(HrefsOf(p)) :
        /\ \A j \in 1..Len(exclude) : ~contains(HrefsOf(p)[i], exclude[j])
        /\ urljoin(base, urldefrag(HrefsOf(p)[i])) = url

\* C16: every link stored in the crawl queue (all but the seed) or in the
\* extract queue starts with the base URL and is the target of an href, free
\* of excluded substrings, of a page fetched before; every URL stored in the
\* extract queue also contains the capture substring and is among the links
\* that page offered to the crawl queue.
C16_AdmittedLinksAreFiltered ==
    /\ \A i \in 2..Len(admitted.q_crawl) :
          /\ startswith(admitted.q_crawl[i], base)
          /\ \E p \in brief.crawled : LinkedFrom(admitted.q_crawl[i], p)
    /\ \A i \in 1..Len(admitted.q_parse) :
          /\ startswith(admitted.q_parse[i], base)
          /\ contains(admitted.q_parse[i], capture)
          /\ \E p \in brief.crawled :
                /\ LinkedFrom(admitted.q_parse[i], p)
                /\ admitted.q_parse[i]
                     \in Range(get_urls(get_html_from_url(p, TRUE)).urls)

\* The start page, which has an off-domain link, an excluded link and a
\* link outside the capture pattern, has been crawled without caps, and the
\* page it links to as well.
C16_Witness ==
    /\ {base, Page("a")} \subseteq brief.crawled
    /\ Len(admitted.q_crawl) >= 6
    /\ Len(admitted.q_parse) = 2
    /\ SubSeq(base, 1, 4) \o <<"/", "about">> \in Range(admitted.q_crawl)


\* C17 as stated: a parser whose extraction failed keeps looping, so no
\* parser ever ends, and while run() waits for the extract queue with tasks
\* still queued some started parser is there to take them.
C17_ParserSurvivesFailedExtraction ==
    /\ \A p \in Workers : parsers[p].pc # "dead"
    /\ (run_pc = "join_parse" /\ q_parse.items # << >>)
       => \E p \in 1..concurrency : parsers[p].pc \in {"extract", "sleep"}


\* C18: whatever the state of the crawl cap, every extract candidate of a
\* page that has been crawled is stored in the extract queue and registered
\* in 'parsing', unless the extract queue's own cap has been reached.
C18_ExtractLoopIgnoresCrawlCap ==
    \A p \in brief.crawled :
        \A u \in Range(get_urls(get_html_from_url(p, TRUE)).urls_to_parse) :
            \/ u \in brief.parsing /\ u \in Range(admitted.q_parse)
            \/ q_parse.is_reached

\* max_crawl = 2: the cap was reached in the middle of the start page's
\* links, /wiki/b never entered the crawl queue but is in the extract queue,
\* and /wiki/a was dequeued and crawled after the cap was reached.
C18_Witness ==
    /\ q_crawl.capacity = 2
    /\ q_crawl.is_reached
    /\ Page("b") \notin Range(admitted.q_crawl)
    /\ Page("b") \in Range(admitted.q_parse)
    /\ Page("a") \in brief.crawled


\* run() is past the crawl join, which did not time out.
PastCrawlJoin ==
    \/ run_pc \in {"crawl_joined", "join_parse", "parse_joined", "writing", "done"}
    \/ run_pc = "aborted" /\ error # "TimeoutError"

\* run() is past the extract join.
PastParseJoin ==
    \/ run_pc \in {"parse_joined", "writing", "done"}
    \/ run_pc = "aborted" /\ error # "TimeoutError"

\* C19: once the crawl queue has drained (after the seed, nothing queued and
\* nothing in flight) it stays drained, and no URL is stored in the extract
\* queue or added to 'parsing' from then on; run() past the crawl join finds
\* it so, and past the extract join every extract task has been taken and
\* marked done and the extract queue is empty.
C19_NoExtractAdmissionAfterCrawlDrain ==
    /\ [][(run_pc # "start" /\ q_crawl.unfinished = 0)
          => /\ q_crawl'.unfinished = 0
             /\ admitted'.q_parse = admitted.q_parse
             /\ brief'.parsing = brief.parsing]_vars
    /\ [](PastCrawlJoin
          => /\ q_crawl.unfinished = 0
             /\ q_crawl.items = << >>
             /\ \A c \in Workers : crawlers[c].pc # "fetch")
    /\ [](PastParseJoin
          => /\ q_parse.unfinished = 0
             /\ q_parse.items = << >>
             /\ \A p \in Workers : parsers[p].pc # "extract")

\* The crawl queue has drained and run() waits for the extract queue, with
\* one task being extracted and one still queued.
C19_Witness ==
    /\ run_pc = "join_parse"
    /\ q_crawl.unfinished = 0
    /\ q_parse.unfinished = 2
    /\ Len(q_parse.items) = 1


\* C20: no parser ever waits inside q_parse.get(): no parser is suspended
\* there, the extract queue has no getter and hands nothing over; a parser
\* that starts an extraction took its URL from the head of a non-empty
\* queue in that same step, and a parser goes to sleep only on an empty
\* queue or for the politeness delay.
C20_ParserNeverBlocksInGet ==
    /\ [](/\ \A p \in Workers : parsers[p].pc # "get"
          /\ q_parse.getters = << >>
          /\ q_parse.delivered = {})
    /\ [][\A p \in Workers :
             parsers'[p] # parsers[p]
             => /\ parsers'[p].pc = "extract"
                   => /\ q_parse.items # << >>
                      /\ parsers'[p].url = Head(q_parse.items)
                      /\ q_parse'.items = Tail(q_parse.items)
                /\ parsers'[p].pc = "sleep"
                   => q_parse.items = << >> \/ delay > 0]_vars

\* Two parsers without politeness delay: one is extracting the last queued
\* URL, the other found the queue empty after its extraction and sleeps.
C20_Witness ==
    /\ concurrency = 2
    /\ delay = 0
    /\ \E p, q \in Workers : parsers[p].pc = "extract" /\ parsers[q].pc = "sleep"
    /\ q_parse.items = << >>
    /\ Len(data) = 1

============================================================================
